---- MODULE Spec2Model ----
(***************************************************************************)
(* Model of the scanning engine of sensitive_extractor.py:                 *)
(* SensitiveInfoExtractor (scan_file run by the pool's worker threads,     *)
(* scan_directory run by the scan thread, cancel_scan called from another  *)
(* thread) and the part of SensitiveInfoGUI that drives it (start_scan,    *)
(* run_scan, stop_scan, scan_completed, scan_error).                       *)
(*                                                                         *)
(* A file path is its position in the listing get_all_files returns.       *)
(* scanned_files, skipped_files and error_files are Python lists that are  *)
(* only appended to and read through len() and iteration; they are kept as *)
(* bags (element and multiplicity), the append order being the workers'    *)
(* scheduling order.                                                       *)
(***************************************************************************)
EXTENDS Integers, Sequences, FiniteSets, Bags, TLC

\* ------------------------------------------------------------------ bounds
MaxFiles == 2
MaxScans == 2
MaxLen == 4
MaxDepth == 2
MaxThreads == 2

\* ------------------------------------------------------- text and patterns
NL == "NL"

\* A compiled pattern is a sequence of atoms: a literal character or ".",
\* which under re.DOTALL matches every character, the line break included.
Compiles(regex) == \A k \in 1..Len(regex) : regex[k] \in {"a", "b", NL, "."}

\* self.patterns, in the order of the rule file: p_bad has a regex re.compile
\* rejects, p_off is disabled
Patterns ==
  << [name |-> "p_ab",  regex |-> <<"a", "b">>, enabled |-> TRUE],
     [name |-> "p_bad", regex |-> <<"(", "a">>, enabled |-> TRUE],
     [name |-> "p_off", regex |-> <<"a">>,      enabled |-> FALSE],
     [name |-> "p_b",   regex |-> <<"b">>,      enabled |-> TRUE] >>

\* the loop of lines 42-46 with the try around the whole loop: the first rule that
\* fails to compile ends the loading
CompiledPatterns_StopAtFirstError ==
  LET bad == {k \in 1..Len(Patterns) : ~Compiles(Patterns[k].regex)}
  IN  IF bad = {} THEN Patterns
      ELSE SubSeq(Patterns, 1, (CHOOSE k \in bad : \A j \in bad : k =< j) - 1)

\* self.compiled_patterns, lines 41-46: the rules whose regex compiles, in rule
\* order; a rule whose re.compile raises is reported and left out
CompiledPatterns == SelectSeq(Patterns, LAMBDA p : Compiles(p.regex))

\* content.split('\n')
RECURSIVE SplitFrom(_, _, _)
SplitFrom(content, i, cur) ==
  IF i > Len(content) THEN <<cur>>
  ELSE IF content[i] = NL THEN <<cur>> \o SplitFrom(content, i + 1, <<>>)
  ELSE SplitFrom(content, i + 1, Append(cur, content[i]))

\* content taken as one line, without the split of line 343
Split_WholeContent(content) == <<content>>

Split(content) == SplitFrom(content, 1, <<>>)

MatchAt(regex, line, i) ==
  /\ i + Len(regex) - 1 =< Len(line)
  /\ \A k \in 1..Len(regex) : regex[k] = "." \/ regex[k] = line[i + k - 1]

\* compiled_pattern.finditer(line): the non-overlapping occurrences, left to
\* right; each yields match.group(0)
RECURSIVE FindIter(_, _, _)
FindIter(regex, line, i) ==
  IF i > Len(line) THEN <<>>
  ELSE IF MatchAt(regex, line, i)
       THEN <<SubSeq(line, i, i + Len(regex) - 1)>> \o FindIter(regex, line, i + Len(regex))
       ELSE FindIter(regex, line, i + 1)

\* LineMatches numbering the lines from 0, as enumerate(lines) does
RECURSIVE LineMatches_FromZero(_, _, _)
LineMatches_FromZero(regex, lines, n) ==
  IF n > Len(lines) THEN <<>>
  ELSE LET found == FindIter(regex, lines[n], 1)
       IN  [k \in 1..Len(found) |-> <<found[k], n - 1>>]
             \o LineMatches_FromZero(regex, lines, n + 1)

\* for line_num, line in enumerate(lines, 1): matches.append((group(0), line_num))
RECURSIVE LineMatches(_, _, _)
LineMatches(regex, lines, n) ==
  IF n > Len(lines) THEN <<>>
  ELSE LET found == FindIter(regex, lines[n], 1)
       IN  [k \in 1..Len(found) |-> <<found[k], n>>] \o LineMatches(regex, lines, n + 1)

\* ------------------------------------------------------------ file system
\* What a file is to the scanner. For is_text_file: the class of its suffix
\* (ext: in binary_extensions, in text_extensions, or neither), what
\* mimetypes.guess_type says of its name (mime: nothing, text/..., one of the
\* three listed application types, or another type) and what reading its first
\* 1024 bytes gives (head: whether the read fails with an I/O error, and of the
\* chunk read whether it holds a null byte, decodes as utf-8, decodes as gbk).
\* For scan_file: whether read_file_content can read it, its decoded content, and
\* whether the match phase raises an unexpected exception on it (for instance
\* MemoryError).
HeadError == [error |-> TRUE,  nul |-> FALSE, utf8 |-> FALSE, gbk |-> FALSE]
HeadUtf8  == [error |-> FALSE, nul |-> FALSE, utf8 |-> TRUE,  gbk |-> TRUE]

Locked ==
  [ext |-> "other", mime |-> "none", head |-> HeadError,
   readable |-> FALSE, content |-> <<>>, raises |-> FALSE]
Unreadable ==
  [ext |-> "text", mime |-> "text", head |-> HeadError,
   readable |-> FALSE, content |-> <<>>, raises |-> FALSE]
EmptyFile ==
  [ext |-> "text", mime |-> "text", head |-> HeadUtf8,
   readable |-> TRUE, content |-> <<>>, raises |-> FALSE]
TextHit ==
  [ext |-> "text", mime |-> "text", head |-> HeadUtf8,
   readable |-> TRUE, content |-> <<"a", "b", NL, "b">>, raises |-> FALSE]
TextMiss ==
  [ext |-> "other", mime |-> "none", head |-> HeadUtf8,
   readable |-> TRUE, content |-> <<"a">>, raises |-> FALSE]
Faulty ==
  [ext |-> "other", mime |-> "listed", head |-> HeadUtf8,
   readable |-> TRUE, content |-> <<"a", "b">>, raises |-> TRUE]

\* the kinds of file a directory is made of. Locked is the file scan_file skips:
\* it goes down to the last branch of is_text_file (lines 306-307); the other
\* ways to a verdict of not text are those of SpecClassify. A directory holds,
\* per file, the index of its kind.
KindOrder == <<Locked, Unreadable, EmptyFile, TextHit, TextMiss, Faulty>>

\* is_text_file trying the decodings before it looks for a null byte
IsTextFile_DecodeFirst(file) ==
  IF file.ext = "binary" THEN FALSE
  ELSE IF file.ext = "text" THEN TRUE
  ELSE IF file.mime # "none" THEN file.mime \in {"text", "listed"}
  ELSE IF file.head.error THEN FALSE
  ELSE IF file.head.utf8 \/ file.head.gbk THEN TRUE
  ELSE FALSE

\* is_text_file taking a file it cannot open for a text file
IsTextFile_FailOpen(file) ==
  IF file.ext = "binary" THEN FALSE
  ELSE IF file.ext = "text" THEN TRUE
  ELSE IF file.mime # "none" THEN file.mime \in {"text", "listed"}
  ELSE IF file.head.error THEN TRUE
  ELSE IF file.head.nul THEN FALSE
  ELSE file.head.utf8 \/ file.head.gbk

\* is_text_file, lines 273-307
IsTextFile(file) ==
  IF file.ext = "binary" THEN FALSE
  ELSE IF file.ext = "text" THEN TRUE
  ELSE IF file.mime # "none" THEN file.mime \in {"text", "listed"}
  ELSE IF file.head.error THEN FALSE
  ELSE IF file.head.nul THEN FALSE
  ELSE file.head.utf8 \/ file.head.gbk

\* The directory trees scanned: the files get_all_files finds under the root, at
\* most MaxFiles of them. os.walk lists them in the order the file system
\* decides; the listings are taken up to that order (sorted by kind).
Directories ==
  {d \in UNION {[1..n -> 1..Len(KindOrder)] : n \in 0..MaxFiles} :
     \A k \in 1..(Len(d) - 1) : d[k] =< d[k + 1]}

\* the pool sizes scan_directory is called with: one worker, and two
PoolSizes == {1, 2}

\* the max_workers arguments scan_directory is called with: the pool sizes, and
\* zero, which is no pool size
WorkerCounts == PoolSizes \cup {0}

\* the paths scan_directory is called with
Paths == {"missing", "file", "root"}

EmptyMap == [x \in {} |-> <<>>]

VARIABLES
  probe,          \* a function of the scanner applied on its own, outside a scan: its
                  \* argument and its result (none in the runs of scan_directory)
  gui,            \* the window's start and stop buttons (ttk states), the scan threads
                  \* start_scan has launched whose outcome no handler has taken yet,
                  \* and whether stop_scan was called since the last start_scan
  dir,            \* the files under "root" (unchanged while the program runs)
  results,        \* self.results: file -> (pattern name -> list of (text, line))
  scanned_files,  \* self.scanned_files
  skipped_files,  \* self.skipped_files
  error_files,    \* self.error_files: (file, message)
  is_scanning,    \* self.is_scanning
  scan_cancelled, \* self.scan_cancelled
  stats,          \* self.stats
  pc,             \* where the scan thread is in scan_directory
  directory_path, \* the directory_path of the current or last scan_directory call
  max_workers,    \* the max_workers of the current or last scan that started
  all_files,      \* scan_directory's all_files
  completed,      \* scan_directory's completed
  task,           \* the futures: per submitted file, the state of its scan_file call
  consumed,       \* the futures as_completed has yielded
  raised,         \* the exception scan_directory raised to its caller, if any
  final_status,   \* the last status scan_directory reported at lines 460-464
  after_queue,    \* the callback run_scan scheduled with root.after
  report,         \* what scan_completed did about the report
  scans,          \* scan_directory calls this scanner has started
  cancel_in_scan, \* cancel_scan was called while is_scanning, in the current or last scan
  progress,       \* the calls of progress_callback made by the current scan_directory
                  \* call: how many, and the percentage passed by the last one
  prev            \* the final status of the scan before the current or last one and,
                  \* when that scan ran to completion, the results and stats it left

\* the file at a position of the listing
File(f) == KindOrder[dir[f]]

vars == <<probe, gui, dir, results, scanned_files, skipped_files, error_files, is_scanning,
          scan_cancelled, stats, pc, directory_path, max_workers, all_files,
          completed, task, consumed, raised, final_status, after_queue, report, scans,
          cancel_in_scan, progress, prev>>

scanner == <<results, scanned_files, skipped_files, error_files, is_scanning,
             scan_cancelled, stats>>
locals == <<directory_path, max_workers, all_files, completed, task, consumed, progress>>


NoProbe == [fn |-> "none"]

\* the buttons as create_scan_tab makes them (lines 733-737): start enabled, stop
\* disabled; no scan thread (line 608)
InitGui ==
  [start_button |-> "normal", stop_button |-> "disabled", threads |-> 0,
   stopped |-> FALSE]

InitStats ==
  [total_files |-> 0, scanned_files |-> 0, skipped_files |-> 0, error_files |-> 0,
   sensitive_items |-> 0, start_time |-> "None", end_time |-> "None"]

QueuedTask == [st |-> "queued", i |-> 1, res |-> EmptyMap, exc |-> FALSE]

\* a percentage is kept as the fraction <<numerator, denominator>>; before the
\* first call of progress_callback nothing has been reported
NoProgress == [calls |-> 0, last |-> <<0, 1>>]

\* SensitiveInfoExtractor.__init__: the state of a new scanner
Init ==
  /\ probe = NoProbe
  /\ gui = InitGui
  /\ dir \in Directories
  /\ results = EmptyMap
  /\ scanned_files = EmptyBag
  /\ skipped_files = EmptyBag
  /\ error_files = EmptyBag
  /\ is_scanning = FALSE
  /\ scan_cancelled = FALSE
  /\ stats = InitStats
  /\ pc = "idle"
  /\ directory_path = "root"
  /\ max_workers = 1
  /\ all_files = <<>>
  /\ completed = 0
  /\ task = <<>>
  /\ consumed = {}
  /\ raised = "none"
  /\ final_status = "none"
  /\ after_queue = "none"
  /\ report = "none"
  /\ scans = 0
  /\ cancel_in_scan = FALSE
  /\ progress = NoProgress
  /\ prev = [results |-> EmptyMap, stats |-> InitStats, status |-> "none"]

\* ---------------------------------------------------------- scan_directory
\* PathCheck without the is_dir test of line 393
PathCheck_NoDirCheck(path) ==
  IF path = "missing" THEN "FileNotFoundError" ELSE "ok"

\* lines 390-394
PathCheck(path) ==
  IF path = "missing" THEN "FileNotFoundError"
  ELSE IF path # "root" THEN "NotADirectoryError"
  ELSE "ok"

\* get_all_files(directory_path), as paths (positions in the listing)
GetAllFiles(path) == IF path = "root" THEN [k \in 1..Len(dir) |-> k] ELSE <<>>

\* scan_directory, lines 386-396, called by run_scan (lines 925-933) or directly:
\* the path is validated, and either the error is raised or is_scanning is set
ScanDirectoryEnter(path, workers) ==
  /\ pc = "idle"
  /\ after_queue = "none"
  /\ IF PathCheck(path) # "ok"
     THEN /\ raised' = PathCheck(path)
          /\ directory_path' = path
          /\ after_queue' = "scan_error"
          /\ UNCHANGED <<probe, gui, dir, scanner, max_workers, all_files, completed, task,
                         consumed, pc, final_status, report, scans,
                         cancel_in_scan, progress, prev>>
     ELSE /\ scans < MaxScans
          /\ is_scanning' = TRUE
          /\ pc' = "l397"
          /\ directory_path' = path
          /\ max_workers' = workers
          /\ raised' = "none"
          /\ final_status' = "none"
          /\ report' = "none"
          /\ scans' = scans + 1
          /\ cancel_in_scan' = FALSE
          /\ prev' = IF final_status = "completed"
                     THEN [results |-> results, stats |-> stats, status |-> final_status]
                     ELSE [results |-> EmptyMap, stats |-> InitStats, status |-> final_status]
          /\ UNCHANGED <<probe, gui, dir, results, scanned_files, skipped_files, error_files,
                         scan_cancelled, stats, all_files, completed, task, consumed,
                         after_queue, progress>>

\* line 411, ThreadPoolExecutor(max_workers=max_workers): the constructor raises
\* ValueError for a pool size below one
PoolCheck(workers) == IF workers < 1 THEN "ValueError" ELSE "ok"

\* lines 397-416: the flag is cleared and the files are listed; then the pool is
\* made and every file is submitted to it, or the pool's constructor raises and
\* the exception leaves scan_directory (run_scan then schedules scan_error),
\* the locals of the call being gone and line 458 never reached
ScanDirectoryBegin ==
  /\ pc = "l397"
  /\ scan_cancelled' = FALSE
  /\ stats' = [stats EXCEPT !.start_time = "set",
                            !.total_files = Len(GetAllFiles(directory_path))]
  /\ completed' = 0
  /\ consumed' = {}
  /\ progress' = NoProgress
  /\ IF PoolCheck(max_workers) = "ok"
     THEN /\ all_files' = GetAllFiles(directory_path)
          /\ task' = [k \in 1..Len(all_files') |-> QueuedTask]
          /\ pc' = "loop"
          /\ UNCHANGED <<raised, after_queue>>
     ELSE /\ all_files' = <<>>
          /\ task' = <<>>
          /\ pc' = "idle"
          /\ raised' = PoolCheck(max_workers)
          /\ after_queue' = "scan_error"
  /\ UNCHANGED <<probe, gui, dir, results, scanned_files, skipped_files, error_files, is_scanning,
                 directory_path, max_workers, final_status, report, scans,
                 cancel_in_scan, prev>>

\* ---------------------------------------------------------------- scan_file
Done(t) == [t EXCEPT !.st = "done"]

\* a pool that runs every queued call at once, whatever max_workers is
CanRun_Unbounded(f) ==
  /\ f \in DOMAIN task
  /\ task[f].st = "queued"

\* ThreadPoolExecutor hands the queued calls to its max_workers threads in
\* submission order: a call can run once fewer than max_workers of the calls
\* submitted before it are unfinished
CanRun(f) ==
  /\ f \in DOMAIN task
  /\ task[f].st = "queued"
  /\ Cardinality({g \in 1..(f - 1) : task[g].st # "done"}) < max_workers

\* line 350 taking every rule for enabled
RuleEnabled_Always(rule) == TRUE

\* line 350: self.patterns[pattern_name].get('enabled', True)
RuleEnabled(rule) == rule.enabled

\* The next iteration of the loop over compiled_patterns after iteration i that
\* does not end at the 'continue' of line 351, or Len(CompiledPatterns) + 1 when
\* the loop ends. The iteration of a disabled rule reads the flag (line 346) and
\* goes on; it is taken together with the iteration that follows it: the call
\* returns the same file_results whether the flag is found set at the disabled
\* rule or at the next one.
RECURSIVE NextRule(_)
NextRule(i) ==
  IF i + 1 > Len(CompiledPatterns) THEN i + 1
  ELSE IF RuleEnabled(CompiledPatterns[i + 1]) THEN i + 1
  ELSE NextRule(i + 1)

\* read_file_content without the appends of lines 320 and 323: the failure is
\* swallowed
ReadFileContent_Silent(file) ==
  [content |-> IF file.readable THEN file.content ELSE <<>>, error |-> FALSE]

\* read_file_content, lines 309-324: the decoded content, or "" with an entry
\* appended to error_files when the file cannot be opened or no encoding of
\* the list decodes it
ReadFileContent(file) ==
  IF file.readable THEN [content |-> file.content, error |-> FALSE]
  ELSE [content |-> <<>>, error |-> TRUE]

\* scan_file without the check of lines 328-329
DeclinesToStart_Never == FALSE

\* lines 328-329: if self.scan_cancelled: return {}
DeclinesToStart == scan_cancelled

\* scan_file, lines 328-343: the cancellation check, is_text_file,
\* read_file_content and the append to scanned_files
ScanFileStart(f) ==
  /\ pc \in {"loop", "shutdown"}
  /\ CanRun(f)
  /\ LET file == File(all_files[f])
         read == ReadFileContent(file)
     IN
     IF DeclinesToStart
     THEN /\ task' = [task EXCEPT ![f] = Done(@)]
          /\ UNCHANGED <<scanned_files, skipped_files, error_files>>
     ELSE IF ~IsTextFile(file)
     THEN /\ skipped_files' = skipped_files (+) SetToBag({all_files[f]})
          /\ task' = [task EXCEPT ![f] = Done(@)]
          /\ UNCHANGED <<scanned_files, error_files>>
     ELSE /\ error_files' = IF read.error
                            THEN error_files (+) SetToBag({<<all_files[f], "read">>})
                            ELSE error_files
          /\ IF read.content = <<>>
             THEN /\ task' = [task EXCEPT ![f] = Done(@)]
                  /\ UNCHANGED scanned_files
             ELSE /\ scanned_files' = scanned_files (+) SetToBag({all_files[f]})
                  /\ task' = [task EXCEPT ![f] =
                                IF NextRule(0) > Len(CompiledPatterns) THEN Done(@)
                                ELSE [@ EXCEPT !.st = "rules", !.i = NextRule(0)]]
          /\ UNCHANGED skipped_files
  /\ UNCHANGED <<probe, gui, dir, results, is_scanning, scan_cancelled, stats, pc, directory_path,
                 max_workers, all_files, completed, consumed, raised, final_status,
                 after_queue, report, scans, cancel_in_scan, progress, prev>>

\* the loop over compiled_patterns without the check of lines 346-347
StopsAtRule_Never == FALSE

\* lines 346-347: if self.scan_cancelled: break
StopsAtRule == scan_cancelled

\* one iteration of the loop over compiled_patterns, lines 345-361, and the
\* return of line 363 after the last one
AfterRule(t, res) ==
  [t EXCEPT !.res = res,
            !.i = NextRule(t.i),
            !.st = IF NextRule(t.i) > Len(CompiledPatterns) THEN "done" ELSE "rules"]

ScanFileRule(f) ==
  /\ pc \in {"loop", "shutdown"}
  /\ f \in DOMAIN task
  /\ task[f].st = "rules"
  /\ LET file == File(all_files[f])
         rule == CompiledPatterns[task[f].i]
         matches == LineMatches(rule.regex, Split(file.content), 1)
     IN  task' = [task EXCEPT ![f] =
           IF StopsAtRule THEN Done(@)
           ELSE IF file.raises THEN [Done(@) EXCEPT !.exc = TRUE]
           ELSE IF matches # <<>> THEN AfterRule(@, (rule.name :> matches) @@ @.res)
           ELSE AfterRule(@, @.res)]
  /\ UNCHANGED <<probe, gui, dir, scanner, pc, directory_path, max_workers, all_files, completed,
                 consumed, raised, final_status, after_queue, report, scans,
                 cancel_in_scan, progress, prev>>

\* --------------------------------------------- scan_directory: aggregation
RECURSIVE SumLen(_, _)
SumLen(file_results, names) ==
  IF names = {} THEN 0
  ELSE LET n == CHOOSE x \in names : TRUE
       IN  Len(file_results[n]) + SumLen(file_results, names \ {n})

\* MergeResults rebuilding results from the file at hand alone
MergeResults_Replace(res, path, file_results) ==
  IF DOMAIN file_results = {} THEN res ELSE (path :> file_results)

\* MergeResults without the test of line 429: the file becomes a key of results
\* whatever scan_file returned
MergeResults_KeyAlways(res, path, file_results) ==
  LET old == IF path \in DOMAIN res THEN res[path] ELSE EmptyMap
      merged == [n \in DOMAIN old \cup DOMAIN file_results |->
                   (IF n \in DOMAIN old THEN old[n] ELSE <<>>) \o
                   (IF n \in DOMAIN file_results THEN file_results[n] ELSE <<>>)]
  IN  (path :> merged) @@ res

\* lines 429-436: results[file_path][pattern_name].extend(matches)
MergeResults(res, path, file_results) ==
  IF DOMAIN file_results = {} THEN res
  ELSE LET old == IF path \in DOMAIN res THEN res[path] ELSE EmptyMap
           merged == [n \in DOMAIN old \cup DOMAIN file_results |->
                        (IF n \in DOMAIN old THEN old[n] ELSE <<>>) \o
                        (IF n \in DOMAIN file_results THEN file_results[n] ELSE <<>>)]
       IN  (path :> merged) @@ res

\* AddItems counting one item per pattern instead of len(matches)
AddItems_PerPattern(n, file_results) == n + Cardinality(DOMAIN file_results)

\* line 437: stats['sensitive_items'] += len(matches), for every pattern
AddItems(n, file_results) == n + SumLen(file_results, DOMAIN file_results)

\* lines 439-444: progress = (completed / len(all_files)) * 100, passed to
\* progress_callback (the rounding of the float division is left out)
ReportProgress(done, total) ==
  [calls |-> progress.calls + 1, last |-> <<done * 100, total>>]

\* lines 427-447: future.result() returned file_results
OnFutureResult(path, file_results) ==
  /\ results' = MergeResults(results, path, file_results)
  /\ stats' = [stats EXCEPT !.sensitive_items = AddItems(@, file_results)]
  /\ progress' = ReportProgress(completed', Len(all_files))
  /\ UNCHANGED <<error_files, pc, raised, after_queue>>

\* OnFutureError without the handler of line 449: the exception leaves
\* scan_directory and run_scan schedules scan_error
OnFutureError_Propagates(path) ==
  /\ raised' = "Exception"
  /\ pc' = "idle"
  /\ after_queue' = "scan_error"
  /\ UNCHANGED <<results, stats, error_files, progress>>

\* lines 449-450: future.result() raised; the handler records the file, and
\* lines 427-447 are left out, the calls of the callbacks among them
OnFutureError(path) ==
  /\ error_files' = error_files (+) SetToBag({<<path, "exception">>})
  /\ UNCHANGED <<results, stats, pc, raised, after_queue, progress>>

\* lines 419-450, one iteration of the loop over as_completed for a future that
\* has finished, with the flag found clear at line 420
Aggregate(f) ==
  /\ pc = "loop"
  /\ f \in DOMAIN task
  /\ task[f].st = "done"
  /\ f \notin consumed
  /\ ~scan_cancelled
  /\ consumed' = consumed \cup {f}
  /\ completed' = completed + 1
  /\ IF task[f].exc THEN OnFutureError(all_files[f])
                    ELSE OnFutureResult(all_files[f], task[f].res)
  /\ UNCHANGED <<probe, gui, dir, scanned_files, skipped_files, is_scanning, scan_cancelled,
                 directory_path, max_workers, all_files, task, final_status, report,
                 scans,
                 cancel_in_scan, prev>>

\* lines 419-421: as_completed yields a finished future and the flag is set: break
Break ==
  /\ pc = "loop"
  /\ \E f \in DOMAIN task : task[f].st = "done" /\ f \notin consumed
  /\ scan_cancelled
  /\ pc' = "shutdown"
  /\ UNCHANGED <<probe, gui, dir, scanner, locals, raised, final_status, after_queue, report, scans,
                 cancel_in_scan, prev>>

\* the end of the with block of line 411 is shutdown(wait=True): it returns when
\* every submitted call has run to its end
PoolDrained == \A f \in DOMAIN task : task[f].st = "done"

\* the with block ends (the executor waits for every submitted call), then
\* lines 452-464 and the return, with which the futures of the call are gone;
\* run_scan then schedules scan_completed (line 930)
Finish ==
  /\ \/ pc = "loop" /\ consumed = DOMAIN task
     \/ pc = "shutdown" /\ PoolDrained
  /\ stats' = [stats EXCEPT !.scanned_files = BagCardinality(scanned_files),
                            !.skipped_files = BagCardinality(skipped_files),
                            !.error_files = BagCardinality(error_files),
                            !.end_time = "set"]
  /\ is_scanning' = FALSE
  /\ final_status' = IF scan_cancelled THEN "cancelled" ELSE "completed"
  /\ pc' = "idle"
  /\ after_queue' = "scan_completed"
  /\ all_files' = <<>>
  /\ completed' = 0
  /\ task' = <<>>
  /\ consumed' = {}
  /\ progress' = NoProgress
  /\ UNCHANGED <<probe, gui, dir, results, scanned_files, skipped_files, error_files, scan_cancelled,
                 directory_path, max_workers, raised, report, scans,
                 cancel_in_scan, prev>>

\* ------------------------------------------------------------- cancel_scan
\* lines 466-468, called by stop_scan (line 968) or on_closing (line 1230)
CancelScan ==
  /\ scan_cancelled' = TRUE
  /\ cancel_in_scan' = (cancel_in_scan \/ is_scanning)
  /\ UNCHANGED <<probe, gui, dir, results, scanned_files, skipped_files, error_files, is_scanning,
                 stats, pc, locals, raised, final_status, after_queue, report, scans,
                 prev>>

\* ---------------------------------------------------------------- the GUI
\* lines 953-954 and 961-962: start_button normal, stop_button disabled; the
\* scan thread that scheduled the handler has ended
ButtonsAfterScan(g) ==
  [g EXCEPT !.start_button = "normal", !.stop_button = "disabled",
            !.threads = IF @ > 0 THEN @ - 1 ELSE 0]

\* scan_completed, lines 935-956: the report is generated and open_report_button
\* enabled (report "generated") when the flag is clear, then the buttons are reset
ScanCompleted ==
  /\ after_queue = "scan_completed"
  /\ report' = IF ~scan_cancelled THEN "generated" ELSE "skipped"
  /\ after_queue' = "none"
  /\ gui' = ButtonsAfterScan(gui)
  /\ UNCHANGED <<probe, dir, scanner, pc, locals, raised, final_status, scans,
                 cancel_in_scan, prev>>

\* scan_error, lines 958-963
ScanError ==
  /\ after_queue = "scan_error"
  /\ after_queue' = "none"
  /\ gui' = ButtonsAfterScan(gui)
  /\ UNCHANGED <<probe, dir, scanner, pc, locals, raised, final_status, report, scans,
                 cancel_in_scan, prev>>

\* __init__, lines 32-88: the caller makes a new SensitiveInfoExtractor, which
\* takes the place of the scanner it has used
NewScanner ==
  /\ pc = "idle"
  /\ after_queue = "none"
  /\ scans > 0
  /\ results' = EmptyMap
  /\ scanned_files' = EmptyBag
  /\ skipped_files' = EmptyBag
  /\ error_files' = EmptyBag
  /\ is_scanning' = FALSE
  /\ scan_cancelled' = FALSE
  /\ stats' = InitStats
  /\ directory_path' = "root"
  /\ max_workers' = 1
  /\ all_files' = <<>>
  /\ completed' = 0
  /\ task' = <<>>
  /\ consumed' = {}
  /\ raised' = "none"
  /\ final_status' = "none"
  /\ report' = "none"
  /\ scans' = 0
  /\ cancel_in_scan' = FALSE
  /\ progress' = NoProgress
  /\ prev' = [results |-> EmptyMap, stats |-> InitStats, status |-> "none"]
  /\ UNCHANGED <<probe, gui, dir, pc, after_queue>>

Next ==
  \/ \E path \in Paths, workers \in WorkerCounts : ScanDirectoryEnter(path, workers)
  \/ ScanDirectoryBegin
  \/ \E f \in 1..MaxFiles : ScanFileStart(f)
  \/ \E f \in 1..MaxFiles : ScanFileRule(f)
  \/ \E f \in 1..MaxFiles : Aggregate(f)
  \/ Break
  \/ Finish
  \/ CancelScan
  \/ ScanCompleted
  \/ ScanError
  \/ NewScanner

Spec == Init /\ [][Next]_vars

\* The first scan_directory call of a scanner, with the scheduling the program
\* runs under: the scan thread and the pool's threads keep running, so a step of
\* scan_directory or of a scan_file call that can be taken is taken in the end;
\* cancel_scan and the GUI callbacks may or may not happen. Whether a call ends
\* does not depend on what earlier scans left in results and the lists; the flag
\* an earlier cancel left set is covered by a cancel_scan before the call.
NextFirstScan ==
  \/ \E path \in Paths, workers \in WorkerCounts :
       scans = 0 /\ ScanDirectoryEnter(path, workers)
  \/ ScanDirectoryBegin
  \/ \E f \in 1..MaxFiles : ScanFileStart(f)
  \/ \E f \in 1..MaxFiles : ScanFileRule(f)
  \/ \E f \in 1..MaxFiles : Aggregate(f)
  \/ Break
  \/ Finish
  \/ CancelScan
  \/ ScanCompleted
  \/ ScanError

Fairness ==
  /\ WF_vars(ScanDirectoryBegin)
  /\ \A f \in 1..MaxFiles : WF_vars(ScanFileStart(f))
  /\ \A f \in 1..MaxFiles : WF_vars(ScanFileRule(f))
  /\ \A f \in 1..MaxFiles : WF_vars(Aggregate(f))
  /\ WF_vars(Break)
  /\ WF_vars(Finish)

SpecFirstScan == Init /\ [][NextFirstScan]_vars /\ Fairness

\* ------------------------------------------- functions applied on their own
\* the variables of a scan, and their values when no scan is involved
scan_vars ==
  <<gui, dir, scanner, pc, locals, raised, final_status, after_queue, report, scans,
    cancel_in_scan, prev>>

NoScan ==
  /\ gui = InitGui
  /\ dir = <<>>
  /\ results = EmptyMap
  /\ scanned_files = EmptyBag
  /\ skipped_files = EmptyBag
  /\ error_files = EmptyBag
  /\ is_scanning = FALSE
  /\ scan_cancelled = FALSE
  /\ stats = InitStats
  /\ pc = "idle"
  /\ directory_path = "root"
  /\ max_workers = 1
  /\ all_files = <<>>
  /\ completed = 0
  /\ task = <<>>
  /\ consumed = {}
  /\ raised = "none"
  /\ final_status = "none"
  /\ after_queue = "none"
  /\ report = "none"
  /\ scans = 0
  /\ cancel_in_scan = FALSE
  /\ progress = NoProgress
  /\ prev = [results |-> EmptyMap, stats |-> InitStats, status |-> "none"]

\* The match of one rule over a content, lines 343 and 353-358 of scan_file: the
\* decoded contents of at most MaxLen characters, and regexes with literals, with
\* "." and with a line break
Contents == UNION {[1..n -> {"a", "b", NL}] : n \in 0..MaxLen}
Regexes ==
  {<<"a">>, <<"b">>, <<".">>, <<"a", "b">>, <<".", "b">>, <<"a", NL>>,
   <<"a", ".", "b">>, <<"a", NL, "b">>}

InitMatch ==
  /\ probe \in {[fn |-> "match", content |-> c, regex |-> r, done |-> FALSE, out |-> <<>>] :
                  c \in Contents, r \in Regexes}
  /\ NoScan

MatchContent ==
  /\ probe.fn = "match"
  /\ ~probe.done
  /\ probe' = [probe EXCEPT !.done = TRUE,
                            !.out = LineMatches(probe.regex, Split(probe.content), 1)]
  /\ UNCHANGED scan_vars

SpecMatch == InitMatch /\ [][MatchContent]_vars

\* is_text_file on a file of every suffix class, MIME guess and leading chunk
Suffixes == {"binary", "text", "other"}
MimeGuesses == {"none", "text", "listed", "other"}
Heads == [error : BOOLEAN, nul : BOOLEAN, utf8 : BOOLEAN, gbk : BOOLEAN]

InitClassify ==
  /\ probe \in {[fn |-> "is_text_file", file |-> [ext |-> e, mime |-> m, head |-> h],
                  done |-> FALSE, out |-> FALSE] :
                  e \in Suffixes, m \in MimeGuesses, h \in Heads}
  /\ NoScan

Classify ==
  /\ probe.fn = "is_text_file"
  /\ ~probe.done
  /\ probe' = [probe EXCEPT !.done = TRUE, !.out = IsTextFile(probe.file)]
  /\ UNCHANGED scan_vars

SpecClassify == InitClassify /\ [][Classify]_vars

\* get_all_files on a directory tree. A name is the sequence of its parts, a
\* leading "." being a part of its own; a file is its path below the root, the
\* names of its directories followed by its own; a tree is the set of its
\* files (a directory without files adds nothing to the listing). The trees
\* have at most MaxFiles files, at most MaxDepth directories deep, under plain,
\* deny-listed and hidden directories, with plain, allow-listed hidden and other
\* hidden names.
DirNames == {<<"src">>, <<"build">>, <<".", "cache">>}
FileNames == {<<"a.txt">>, <<".", "env">>, <<".", "secret">>}

RECURSIVE DirPaths(_)
DirPaths(n) ==
  IF n = 0 THEN {<<>>}
  ELSE DirPaths(n - 1) \cup {Append(d, name) : d \in DirPaths(n - 1), name \in DirNames}

FilePaths == {Append(d, name) : d \in DirPaths(MaxDepth), name \in FileNames}

\* the trees of at most n files
RECURSIVE TreesOf(_)
TreesOf(n) ==
  IF n = 0 THEN {{}}
  ELSE TreesOf(n - 1) \cup {t \cup {f} : t \in TreesOf(n - 1), f \in FilePaths}

StartsWithDot(name) == name[1] = "."

\* lines 372-375
DenyDirs ==
  {<<"node_modules">>, <<"__pycache__">>, <<".", "git">>, <<".", "svn">>, <<"target">>,
   <<"build">>, <<"dist">>, <<"bin">>, <<"obj">>, <<"out">>, <<".", "idea">>,
   <<".", "vscode">>}

\* line 378
AllowedHidden == {<<".", "env">>, <<".", "gitignore">>, <<".", "gitattributes">>}

\* the filter of lines 372-375 keeping the hidden directories
KeepDir_DenyListOnly(name) == name \notin DenyDirs

\* lines 372-375: the directories os.walk goes down into
KeepDir(name) == ~StartsWithDot(name) /\ name \notin DenyDirs

\* the test of line 378 without the allow-list
KeepFile_NoHidden(name) == ~StartsWithDot(name)

\* line 378: the files that are listed
KeepFile(name) == ~(StartsWithDot(name) /\ name \notin AllowedHidden)

IsPrefix(d, path) == Len(d) =< Len(path) /\ SubSeq(path, 1, Len(d)) = d

\* a set as a list, in some order (os.walk lists in the order of the file system)
RECURSIVE SetToSeq(_)
SetToSeq(set) ==
  IF set = {} THEN <<>>
  ELSE LET x == CHOOSE y \in set : TRUE IN <<x>> \o SetToSeq(set \ {x})

\* os.walk from the directory d of tree, lines 370-382: the files of d that are
\* kept, then the walk of every subdirectory of d that is kept
RECURSIVE Walk(_, _)
RECURSIVE WalkEach(_, _, _)
WalkEach(tree, d, names) ==
  IF names = {} THEN <<>>
  ELSE LET name == CHOOSE x \in names : TRUE
       IN  Walk(tree, Append(d, name)) \o WalkEach(tree, d, names \ {name})

Walk(tree, d) ==
  LET below == {f \in tree : IsPrefix(d, f) /\ Len(f) > Len(d)}
      files == {f \in below : Len(f) = Len(d) + 1}
      dirs == {f[Len(d) + 1] : f \in {g \in below : Len(g) > Len(d) + 1}}
  IN  SetToSeq({f \in files : KeepFile(f[Len(f)])})
        \o WalkEach(tree, d, {name \in dirs : KeepDir(name)})

InitWalk ==
  /\ probe \in {[fn |-> "get_all_files", tree |-> t, done |-> FALSE, out |-> <<>>] :
                  t \in TreesOf(MaxFiles)}
  /\ NoScan

GetAllFilesOfTree ==
  /\ probe.fn = "get_all_files"
  /\ ~probe.done
  /\ probe' = [probe EXCEPT !.done = TRUE, !.out = Walk(probe.tree, <<>>)]
  /\ UNCHANGED scan_vars

SpecWalk == InitWalk /\ [][GetAllFilesOfTree]_vars


\* ===================================================================== claims
\* A scan_directory call has returned normally and no other was started since.
Returned == pc = "idle" /\ final_status # "none"

\* the entries of error_files for a file
ErrorEntries(f) ==
  CopiesIn(<<f, "read">>, error_files) + CopiesIn(<<f, "exception">>, error_files)

\* scan_file's loop over compiled_patterns (lines 345-363) run to its end on a
\* file's content, the flag staying clear; RunRulesOver is the loop over a given
\* sequence of compiled rules
RECURSIVE RunRulesOver(_, _, _, _)
RunRulesOver(rules, content, i, res) ==
  IF i > Len(rules) THEN res
  ELSE LET rule == rules[i]
           matches == LineMatches(rule.regex, Split(content), 1)
       IN  RunRulesOver(rules, content, i + 1,
                        IF RuleEnabled(rule) /\ matches # <<>>
                        THEN (rule.name :> matches) @@ res ELSE res)

RunRules(content, i, res) == RunRulesOver(CompiledPatterns, content, i, res)

\* the files whose scan_file call reaches line 339, and those of them on which
\* the match phase raises
ReachesMatching(file) == IsTextFile(file) /\ file.readable /\ file.content # <<>>
RaisesInMatching(file) ==
  /\ ReachesMatching(file)
  /\ file.raises
  /\ \E i \in 1..Len(CompiledPatterns) : RuleEnabled(CompiledPatterns[i])

\* what scan_file returns for a file when no cancellation interferes
FileResults(file) ==
  IF ReachesMatching(file) /\ ~RaisesInMatching(file)
  THEN RunRules(file.content, 1, EmptyMap) ELSE EmptyMap

Listing == 1..Len(dir)

ExpectedResults ==
  [f \in {g \in Listing : DOMAIN FileResults(File(g)) # {}} |-> FileResults(File(f))]

RECURSIVE TotalMatches(_, _)
TotalMatches(res, files) ==
  IF files = {} THEN 0
  ELSE LET f == CHOOSE x \in files : TRUE
       IN  SumLen(res[f], DOMAIN res[f]) + TotalMatches(res, files \ {f})

\* C1: when scan_directory returns, stats.scanned_files + stats.skipped_files +
\* stats.error_files equals stats.total_files (with or without cancellation, for
\* any mix of text, non-text, unreadable and empty files).
C1_OutcomeCountsSumToTotal ==
  Returned =>
    stats.scanned_files + stats.skipped_files + stats.error_files = stats.total_files

\* C2: at the end of a scan every discovered file is in exactly one of the
\* scanned, skipped and error lists, and is there exactly once.
C2_ExactlyOneOutcomePerFile ==
  Returned =>
    \A f \in Listing :
      CopiesIn(f, scanned_files) + CopiesIn(f, skipped_files) + ErrorEntries(f) = 1

\* C3: in every reachable state stats.sensitive_items equals the sum, over the
\* files and patterns of results, of the number of matches.
C3_SensitiveItemsIsSumOfMatches ==
  stats.sensitive_items = TotalMatches(results, DOMAIN results)

\* C3 witness: two files with matches have been aggregated, under several patterns.
C3_Witness ==
  /\ Cardinality(DOMAIN results) = 2
  /\ \E f \in DOMAIN results : Cardinality(DOMAIN results[f]) = 2
  /\ stats.sensitive_items > 2

\* C4: if cancel_scan is called while is_scanning is true, the flag is still set
\* when scan_directory finishes and the final status reported is 'cancelled'.
C4_CancelWhileScanningEndsCancelled ==
  (Returned /\ cancel_in_scan) => (scan_cancelled /\ final_status = "cancelled")

\* C5: once cancel_scan has set the flag during a scan, no step of the scanner
\* sets it back to false.
C5_CancelFlagMonotonic ==
  [][(is_scanning /\ cancel_in_scan /\ scan_cancelled) => scan_cancelled']_vars

\* C6: cancel_scan after scan_directory has finished as completed leaves the
\* cancelled flag as it was, and the completed scan still gets its report once
\* scan_completed has run.
C6_CancelAfterCompletedHasNoEffect ==
  (Returned /\ final_status = "completed") =>
    (~scan_cancelled /\ (after_queue = "none" => report = "generated"))

\* C7: scan_directory on a missing root raises FileNotFoundError and on a root
\* that is no directory NotADirectoryError, and the scan never starts:
\* is_scanning, false before the call, stays false (the call never sets it),
\* nothing is listed or submitted, no status is reported, and results, the
\* lists, stats and the flag are unchanged.
C7_PathErrorFailsFast ==
  [][(/\ pc = "idle"
      /\ after_queue = "none"
      /\ pc' = "l397" \/ after_queue' = "scan_error"
      /\ directory_path' # "root")
     => (/\ raised' = IF directory_path' = "missing" THEN "FileNotFoundError"
                      ELSE "NotADirectoryError"
         /\ pc' = "idle"
         /\ ~is_scanning => ~is_scanning'
         /\ UNCHANGED <<results, scanned_files, skipped_files, error_files,
                        is_scanning, scan_cancelled, stats, all_files, task,
                        completed, consumed, final_status, report>>)]_vars

\* C7 witness: a call on a path that is no directory has failed on a scanner that
\* holds the results of an earlier scan.
C7_Witness ==
  /\ raised = "NotADirectoryError"
  /\ directory_path = "file"
  /\ DOMAIN results # {}
  /\ stats.total_files > 0

\* C8: without cancellation, the final results and stats counts of the scan of a
\* directory are the same for every pool size and every interleaving of the
\* file tasks: they are the ones the directory and the patterns determine.
C8_OutcomeIndependentOfSchedule ==
  (Returned /\ final_status = "completed" /\ scans = 1) =>
    /\ results = ExpectedResults
    /\ stats.total_files = Len(dir)
    /\ stats.scanned_files = Cardinality({f \in Listing : ReachesMatching(File(f))})
    /\ stats.skipped_files = Cardinality({f \in Listing : ~IsTextFile(File(f))})
    /\ stats.error_files =
         Cardinality({f \in Listing : IsTextFile(File(f)) /\ ~File(f).readable})
         + Cardinality({f \in Listing : RaisesInMatching(File(f))})
    /\ stats.sensitive_items = TotalMatches(ExpectedResults, DOMAIN ExpectedResults)

\* C8 witness: a scan with two workers has completed with matches from two files.
C8_Witness ==
  /\ Returned /\ final_status = "completed" /\ scans = 1
  /\ max_workers = 2
  /\ Cardinality(DOMAIN results) = 2

\* the matches of results, per file and pattern, as multisets
SeqBag(seq) ==
  [e \in {seq[k] : k \in 1..Len(seq)} |-> Cardinality({k \in 1..Len(seq) : seq[k] = e})]
Content(res) == [f \in DOMAIN res |-> [n \in DOMAIN res[f] |-> SeqBag(res[f][n])]]
Counts(st) ==
  <<st.total_files, st.scanned_files, st.skipped_files, st.error_files,
    st.sensitive_items>>

\* C9: scanning an unchanged directory twice with the same patterns yields, after
\* the second scan, the same results content and the same stats counts as after
\* the first.
C9_RescanGivesSameResultsAndStats ==
  (Returned /\ scans = 2 /\ final_status = "completed" /\ prev.status = "completed") =>
    (Content(results) = Content(prev.results) /\ Counts(stats) = Counts(prev.stats))

\* a file that raises nothing is recorded and aggregated as it is when scanned alone
AggregatedAsAlone(f) ==
  /\ (f \in DOMAIN results) = (DOMAIN FileResults(File(f)) # {})
  /\ f \in DOMAIN results => results[f] = FileResults(File(f))
  /\ CopiesIn(f, scanned_files) = IF ReachesMatching(File(f)) THEN 1 ELSE 0
  /\ CopiesIn(f, skipped_files) = IF IsTextFile(File(f)) THEN 0 ELSE 1
  /\ ErrorEntries(f) = IF IsTextFile(File(f)) /\ ~File(f).readable THEN 1 ELSE 0

\* C10: an unexpected exception raised while a file is processed is caught when
\* its future is collected: one (path, message) entry is added to error_files,
\* nothing reaches the caller of scan_directory and the loop goes on; and at the
\* end of a scan that was not cancelled the failed file has that one entry and
\* no results, and every other file is recorded and aggregated as if no file had
\* failed.
C10_FailureIsIsolated ==
  /\ [](raised # "Exception")
  /\ []((Returned /\ final_status = "completed" /\ scans = 1) =>
          \A f \in Listing :
            IF RaisesInMatching(File(f))
            THEN CopiesIn(<<f, "exception">>, error_files) = 1 /\ f \notin DOMAIN results
            ELSE AggregatedAsAlone(f))
  /\ [][\A f \in DOMAIN task :
          (task[f].exc /\ f \notin consumed /\ f \in consumed') =>
            (/\ error_files' = error_files (+) SetToBag({<<all_files[f], "exception">>})
             /\ pc' = "loop"
             /\ task' = task
             /\ UNCHANGED <<results, stats, scanned_files, skipped_files, raised,
                            is_scanning>>)]_vars

\* C10 witness: a scan has completed in which one file failed in the match phase
\* and another file's matches were aggregated.
C10_Witness ==
  /\ Returned /\ final_status = "completed" /\ scans = 1
  /\ \E f \in Listing : CopiesIn(<<f, "exception">>, error_files) = 1
  /\ DOMAIN results # {}

\* the outcome every file has at the end of a first scan that was not cancelled
OutcomeAsAlone(f) ==
  IF RaisesInMatching(File(f))
  THEN CopiesIn(<<f, "exception">>, error_files) = 1 /\ f \notin DOMAIN results
  ELSE AggregatedAsAlone(f)

\* a file is_text_file accepts and read_file_content cannot read
ReadFails(file) == IsTextFile(file) /\ ~file.readable

\* C11: a file classified as text whose content cannot be read gets one
\* (path, message) entry in error_files as soon as its scan_file call has run,
\* returns no matches and raises nothing, is never in scanned_files nor in
\* results, and every other file of the scan still gets the outcome it has when
\* scanned alone.
C11_UnreadableFileIsErrored ==
  \A f \in Listing :
    ReadFails(File(f)) =>
      /\ CopiesIn(f, scanned_files) = 0
      /\ CopiesIn(f, skipped_files) = 0
      /\ CopiesIn(<<f, "exception">>, error_files) = 0
      /\ f \notin DOMAIN results
      /\ f \in DOMAIN task =>
           /\ task[f].st \in {"queued", "done"}
           /\ task[f].res = EmptyMap
           /\ ~task[f].exc
           /\ (task[f].st = "done" /\ ~scan_cancelled /\ scans = 1) =>
                CopiesIn(<<f, "read">>, error_files) = 1
      /\ (Returned /\ final_status = "completed" /\ scans = 1) =>
           /\ CopiesIn(<<f, "read">>, error_files) = 1
           /\ \A g \in Listing \ {f} : ReadFails(File(g)) \/ OutcomeAsAlone(g)

\* C11 witness: a scan has completed in which one file could not be read and
\* the matches of another were aggregated.
C11_Witness ==
  /\ Returned /\ final_status = "completed" /\ scans = 1
  /\ \E f \in Listing : ReadFails(File(f)) /\ CopiesIn(<<f, "read">>, error_files) = 1
  /\ DOMAIN results # {}

\* C12: at the end of a scan that was not cancelled, every file classified as
\* text and read successfully is in scanned_files, once, also when it has no
\* match and also when its content is the empty string.
C12_ReadTextFileIsScanned ==
  (Returned /\ final_status = "completed" /\ scans = 1) =>
    \A f \in Listing :
      (IsTextFile(File(f)) /\ File(f).readable) => CopiesIn(f, scanned_files) = 1

\* a file with no known suffix and no MIME type that is_text_file cannot open
ClassifierReadFails(file) ==
  file.ext = "other" /\ file.mime = "none" /\ file.head.error

\* C13: a file is_text_file reports as not text, the file whose fallback read
\* fails with an I/O error included, is appended to skipped_files as soon as its
\* scan_file call has run, is never in scanned_files, error_files or results, and
\* its call never reads it nor reaches the match phase (it returns no matches
\* and records no read error).
C13_NotTextIsSkipped ==
  \A f \in Listing :
    (~IsTextFile(File(f)) \/ ClassifierReadFails(File(f))) =>
      /\ CopiesIn(f, scanned_files) = 0
      /\ ErrorEntries(f) = 0
      /\ f \notin DOMAIN results
      /\ f \in DOMAIN task =>
           /\ task[f].st \in {"queued", "done"}
           /\ task[f].res = EmptyMap
           /\ ~task[f].exc
           /\ (task[f].st = "done" /\ ~scan_cancelled /\ scans = 1) =>
                CopiesIn(f, skipped_files) = 1
      /\ (Returned /\ final_status = "completed" /\ scans = 1) =>
           CopiesIn(f, skipped_files) = 1

\* C13 witness: a scan has completed that skipped a file is_text_file could not
\* open.
C13_Witness ==
  /\ Returned /\ final_status = "completed" /\ scans = 1
  /\ \E f \in Listing : ClassifierReadFails(File(f)) /\ CopiesIn(f, skipped_files) = 1

\* the compiled rule set with the disabled rules removed from it
RulesWithoutDisabled == SelectSeq(CompiledPatterns, LAMBDA p : p.enabled)
DisabledNames == {Patterns[k].name : k \in {j \in 1..Len(Patterns) : ~Patterns[j].enabled}}

\* what scan_file returns for a file under the rule set without the disabled rules
FileResultsWithoutDisabled(file) ==
  IF ReachesMatching(file) /\ ~(file.raises /\ Len(RulesWithoutDisabled) > 0)
  THEN RunRulesOver(RulesWithoutDisabled, file.content, 1, EmptyMap) ELSE EmptyMap

ExpectedWithoutDisabled ==
  [f \in {g \in Listing : DOMAIN FileResultsWithoutDisabled(File(g)) # {}} |->
     FileResultsWithoutDisabled(File(f))]

\* C14: a rule with enabled = false behaves as if it were not in the rule set: no
\* entry of results, and none of a running scan_file call, carries its name, and
\* the results and stats of a scan that was not cancelled are those of the scan
\* under the rule set with the disabled rules removed.
C14_DisabledRuleAsIfAbsent ==
  /\ \A f \in DOMAIN results : DOMAIN results[f] \cap DisabledNames = {}
  /\ \A f \in DOMAIN task : DOMAIN task[f].res \cap DisabledNames = {}
  /\ (Returned /\ final_status = "completed" /\ scans = 1) =>
       /\ results = ExpectedWithoutDisabled
       /\ stats.sensitive_items =
            TotalMatches(ExpectedWithoutDisabled, DOMAIN ExpectedWithoutDisabled)
       /\ stats.total_files = Len(dir)
       /\ stats.scanned_files = Cardinality({f \in Listing : ReachesMatching(File(f))})
       /\ stats.skipped_files = Cardinality({f \in Listing : ~IsTextFile(File(f))})
       /\ stats.error_files =
            Cardinality({f \in Listing : ReadFails(File(f))})
            + Cardinality({f \in Listing : ReachesMatching(File(f)) /\ File(f).raises
                                            /\ Len(RulesWithoutDisabled) > 0})

\* C14 witness: a scan has completed with matches of a file in which the regex
\* of a disabled rule matches too.
C14_Witness ==
  /\ Returned /\ final_status = "completed" /\ scans = 1
  /\ \E f \in DOMAIN results :
       \E k \in 1..Len(CompiledPatterns) :
         /\ ~CompiledPatterns[k].enabled
         /\ LineMatches(CompiledPatterns[k].regex, Split(File(f).content), 1) # <<>>

\* the rules of the rule file whose regex compiles, and the names of the others
ValidRules == SelectSeq(Patterns, LAMBDA p : Compiles(p.regex))
InvalidNames ==
  {Patterns[k].name : k \in {j \in 1..Len(Patterns) : ~Compiles(Patterns[j].regex)}}

\* what scan_file returns for a file under the valid rules of the rule file
FileResultsValid(file) ==
  IF ReachesMatching(file)
     /\ ~(file.raises /\ \E k \in 1..Len(ValidRules) : ValidRules[k].enabled)
  THEN RunRulesOver(ValidRules, file.content, 1, EmptyMap) ELSE EmptyMap

ExpectedValid ==
  [f \in {g \in Listing : DOMAIN FileResultsValid(File(g)) # {}} |->
     FileResultsValid(File(f))]

\* C15: with a rule file in which a regex does not compile, the scanner is
\* built all the same: the compiled set holds every rule that compiles and no
\* rule that does not, and a scan yields the matches of the valid rules, the
\* ones after the invalid rule in the rule file included, and nothing under the
\* name of a dropped rule.
C15_InvalidRulesAreDropped ==
  /\ \A k \in 1..Len(Patterns) :
       (\E j \in 1..Len(CompiledPatterns) : CompiledPatterns[j] = Patterns[k])
         <=> Compiles(Patterns[k].regex)
  /\ \A f \in DOMAIN results : DOMAIN results[f] \cap InvalidNames = {}
  /\ \A f \in DOMAIN task : DOMAIN task[f].res \cap InvalidNames = {}
  /\ (Returned /\ final_status = "completed" /\ scans = 1) =>
       results = ExpectedValid

\* C15 witness: a scan has completed with matches under a rule that comes after
\* an invalid rule in the rule file.
C15_Witness ==
  /\ Returned /\ final_status = "completed" /\ scans = 1
  /\ \E f \in DOMAIN results :
       \E k \in 1..Len(Patterns) : \E j \in (k + 1)..Len(Patterns) :
         /\ ~Compiles(Patterns[k].regex)
         /\ Patterns[j].name \in DOMAIN results[f]

\* C16: a scan_file call that begins when the cancellation flag is set returns
\* at once: the file is not classified, read or matched, the call returns no
\* matches and raises nothing, and results, the three lists and stats are as
\* they were.
C16_NoStartAfterCancel ==
  [][\A f \in DOMAIN task :
       (/\ scan_cancelled
        /\ task[f].st = "queued"
        /\ f \in DOMAIN task'
        /\ task'[f].st # "queued")
       => (/\ task'[f] = Done(QueuedTask)
           /\ UNCHANGED <<results, scanned_files, skipped_files, error_files,
                          stats>>)]_vars

\* C16 witness: after a cancel, the call for a text file with content has
\* returned without the file being recorded anywhere.
C16_Witness ==
  /\ scans = 1
  /\ scan_cancelled
  /\ \E f \in DOMAIN task :
       /\ task[f] = Done(QueuedTask)
       /\ ReachesMatching(File(all_files[f]))
       /\ CopiesIn(all_files[f], scanned_files) = 0

\* the scan_file calls that have started and not returned
Executing == {f \in DOMAIN task : task[f].st = "rules"}

\* C17: while scan_directory is in its with block, at most max_workers scan_file
\* calls are executing, and the futures are one per file get_all_files found:
\* every path of the listing has been submitted as its own call, once.
C17_PoolIsBoundedAndEveryPathSubmitted ==
  pc \in {"loop", "shutdown"} =>
    /\ Cardinality(Executing) =< max_workers
    /\ DOMAIN task = DOMAIN all_files
    /\ Len(all_files) = Len(dir)
    /\ \A p \in Listing : Cardinality({f \in DOMAIN task : all_files[f] = p}) = 1

\* C17 witness: with one worker, one call is executing and the call for another
\* file waits in the queue.
C17_Witness ==
  /\ pc = "loop"
  /\ max_workers = 1
  /\ Cardinality(Executing) = 1
  /\ \E f \in DOMAIN task : task[f].st = "queued"

\* a step of a pool worker: a scan_file call advances while scan_directory stays
\* where it is
WorkerStep == pc' = pc /\ task' # task

\* C18: results, the three lists and stats are written by the scan thread only
\* (the loop over as_completed and the lines after it): no step of a worker
\* thread changes any of them.
C18_OnlyScanThreadWritesAggregate ==
  [][WorkerStep =>
       UNCHANGED <<results, scanned_files, skipped_files, error_files, stats>>]_vars

\* C19: every iteration of the collecting loop that takes a future calls
\* progress_callback once, with completed / total * 100 for the number of
\* futures taken so far; that percentage is within 0..100 and greater than the
\* one reported before; and when a scan of a directory with files ends without
\* cancellation, the last percentage reported is 100.
C19_ProgressPerOutcome ==
  [][/\ (completed' = completed + 1) =>
          /\ progress'.calls = progress.calls + 1
          /\ progress'.last = <<completed' * 100, Len(all_files)>>
          /\ 0 =< progress'.last[1]
          /\ progress'.last[1] =< 100 * progress'.last[2]
          /\ progress'.last[1] * progress.last[2] > progress.last[1] * progress'.last[2]
     /\ (pc = "loop" /\ pc' = "idle" /\ final_status' = "completed"
           /\ Len(all_files) > 0) =>
          /\ progress.calls = Len(all_files)
          /\ progress.last[1] = 100 * progress.last[2]]_vars

\* C20: in every state the number of entries of scanned_files is at most
\* stats.total_files, and so is stats.scanned_files once a scan has set it, also
\* during and after a cancelled scan and after repeated scans.
C20_ScannedAtMostTotal ==
  /\ BagCardinality(scanned_files) =< stats.total_files
  /\ stats.scanned_files =< stats.total_files

\* C21: a scan_file call that has passed the check of line 328 and recorded its
\* file as scanned runs every enabled rule and its matches are merged into
\* results: when scan_directory has returned, cancelled or not, every file in
\* scanned_files whose call raised nothing has all its matches in results.
C21_ScannedFileHasAllItsMatches ==
  (Returned /\ scans = 1) =>
    \A f \in Listing :
      (CopiesIn(f, scanned_files) > 0 /\ ~File(f).raises
         /\ DOMAIN FileResults(File(f)) # {}) =>
        (f \in DOMAIN results /\ results[f] = FileResults(File(f)))

\* C22: scan_file reads the cancellation flag before each rule: a call that
\* finds it set evaluates no further rule and returns the matches of the rules
\* it has completed, nothing more, and in every state the matches a call holds
\* are those of rules before the one it is about to evaluate.
C22_NoFurtherRuleAfterCancel ==
  /\ [](\A f \in DOMAIN task :
          \A n \in DOMAIN task[f].res :
            \E k \in 1..(task[f].i - 1) : CompiledPatterns[k].name = n)
  /\ [][\A f \in DOMAIN task :
          (/\ scan_cancelled
           /\ task[f].st = "rules"
           /\ f \in DOMAIN task'
           /\ task'[f] # task[f])
          => (/\ task'[f] = Done(task[f])
              /\ UNCHANGED <<results, scanned_files, skipped_files, error_files,
                             stats>>)]_vars

\* C22 witness: after a cancel a call has returned the matches of its first
\* rule only, for a file in which a later rule matches too.
C22_Witness ==
  /\ scan_cancelled
  /\ \E f \in DOMAIN task :
       /\ task[f].st = "done"
       /\ ~task[f].exc
       /\ DOMAIN task[f].res # {}
       /\ DOMAIN task[f].res # DOMAIN FileResults(File(all_files[f]))

\* the futures collected so far whose file ended as scanned, skipped, in error
CollectedAs(list) == {f \in consumed : CopiesIn(all_files[f], list) > 0}
CollectedInError ==
  {f \in consumed : ErrorEntries(all_files[f]) > 0}

\* C23: while scan_directory collects the futures, stats.scanned_files,
\* stats.skipped_files and stats.error_files are the numbers of scanned, skipped
\* and failed files among the futures collected so far.
C23_CountersFollowOutcomes ==
  (pc = "loop" /\ scans = 1) =>
    /\ stats.scanned_files = Cardinality(CollectedAs(scanned_files))
    /\ stats.skipped_files = Cardinality(CollectedAs(skipped_files))
    /\ stats.error_files = Cardinality(CollectedInError)

\* a scan_directory call has listed and submitted the files and no scan_file
\* call has begun
ScanJustStarted ==
  /\ pc = "loop"
  /\ consumed = {}
  /\ \A f \in DOMAIN task : task[f].st = "queued"

\* C24: when a scan_directory call starts its work, results and the three lists
\* are empty and stats.sensitive_items is 0, whatever earlier scans of the same
\* scanner recorded.
C24_ScanStartsOnFreshState ==
  ScanJustStarted =>
    /\ results = EmptyMap
    /\ scanned_files = EmptyBag
    /\ skipped_files = EmptyBag
    /\ error_files = EmptyBag
    /\ stats.sensitive_items = 0

\* the rule match of a content has been computed
Matched == probe.fn = "match" /\ probe.done

\* the number of lines of a content: the line breaks in it, plus one
LineCount(content) == Cardinality({k \in 1..Len(content) : content[k] = NL}) + 1

\* C25: in the list of (text, line number) a rule yields for a content, every
\* line number is at least 1 and at most the number of lines of the content, and
\* the line numbers never decrease along the list.
C25_LineNumbersInRangeAndAscending ==
  Matched =>
    /\ \A k \in 1..Len(probe.out) :
         1 =< probe.out[k][2] /\ probe.out[k][2] =< LineCount(probe.content)
    /\ \A k \in 1..(Len(probe.out) - 1) : probe.out[k][2] =< probe.out[k + 1][2]

\* C25 witness: a rule has matched twice on one line and again on a later line.
C25_Witness ==
  /\ Matched
  /\ \E k \in 1..(Len(probe.out) - 2) :
       /\ probe.out[k][2] = probe.out[k + 1][2]
       /\ probe.out[k + 1][2] < probe.out[k + 2][2]

\* the positions of a content at which a regex matches under re.DOTALL, and
\* whether the occurrence at a position holds a line break
Occurrences(regex, content) == {i \in 1..Len(content) : MatchAt(regex, content, i)}
SpansLines(regex, content, i) ==
  \E k \in i..(i + Len(regex) - 1) : content[k] = NL

\* the characters of a content between its (n-1)th and nth line break
RECURSIVE LineOf(_, _)
LineOf(content, n) ==
  LET breaks == {k \in 1..Len(content) : content[k] = NL}
      first == IF breaks = {} THEN Len(content) + 1
               ELSE CHOOSE k \in breaks : \A j \in breaks : k =< j
  IN  IF n = 1 THEN SubSeq(content, 1, first - 1)
      ELSE LineOf(SubSeq(content, first + 1, Len(content)), n - 1)

\* C26: every (text, line number) a rule yields for a content is an occurrence
\* of the regex inside that line of the content, its text holds no line break,
\* and a regex whose occurrences in the content all run across a line break
\* yields no match.
C26_MatchingIsLineScoped ==
  Matched =>
    /\ \A k \in 1..Len(probe.out) :
         LET text == probe.out[k][1]
             line == LineOf(probe.content, probe.out[k][2])
         IN  /\ \A j \in 1..Len(text) : text[j] # NL
             /\ \E i \in Occurrences(probe.regex, line) :
                  SubSeq(line, i, i + Len(text) - 1) = text
    /\ (\A i \in Occurrences(probe.regex, probe.content) :
          SpansLines(probe.regex, probe.content, i)) => probe.out = <<>>

\* C26 witness: a regex that occurs in the content, across a line break only,
\* has yielded no match.
C26_Witness ==
  /\ Matched
  /\ Occurrences(probe.regex, probe.content) # {}
  /\ \A i \in Occurrences(probe.regex, probe.content) :
       SpansLines(probe.regex, probe.content, i)
  /\ probe.out = <<>>

\* C27: results has no empty entry: every file that is a key of results has at
\* least one pattern, every list of matches in results, and in what a scan_file
\* call returns, is non-empty, and a file scanned without any match is no key of
\* results.
C27_NoEmptyResultsEntry ==
  /\ \A f \in DOMAIN results :
       /\ DOMAIN results[f] # {}
       /\ \A n \in DOMAIN results[f] : results[f][n] # <<>>
  /\ \A f \in DOMAIN task : \A n \in DOMAIN task[f].res : task[f].res[n] # <<>>
  /\ (Returned /\ scans = 1) =>
       \A f \in Listing : DOMAIN FileResults(File(f)) = {} => f \notin DOMAIN results

\* C27 witness: a scan has completed in which a file was scanned without any
\* match while another file has matches in results.
C27_Witness ==
  /\ Returned /\ final_status = "completed" /\ scans = 1
  /\ DOMAIN results # {}
  /\ \E f \in Listing :
       /\ CopiesIn(f, scanned_files) = 1
       /\ ~File(f).raises
       /\ f \notin DOMAIN results

\* C28: is_text_file decides by the first rule that applies: a binary suffix
\* gives not text; else a text suffix gives text; else a MIME type guessed from
\* the name gives text exactly for text/* and the three listed application
\* types, whatever the content; else the leading chunk decides: an I/O error
\* gives not text, a null byte gives not text, otherwise text exactly when the
\* chunk decodes as utf-8 or as gbk.
C28_ClassifierDecisionOrder ==
  (probe.fn = "is_text_file" /\ probe.done) =>
    LET f == probe.file
        fallback == f.ext = "other" /\ f.mime = "none"
    IN  /\ f.ext = "binary" => ~probe.out
        /\ f.ext = "text" => probe.out
        /\ (f.ext = "other" /\ f.mime # "none") =>
             probe.out = (f.mime \in {"text", "listed"})
        /\ (fallback /\ f.head.error) => ~probe.out
        /\ (fallback /\ ~f.head.error /\ f.head.nul) => ~probe.out
        /\ (fallback /\ ~f.head.error /\ ~f.head.nul) =>
             probe.out = (f.head.utf8 \/ f.head.gbk)

\* C28 witness: a file without known suffix or MIME type whose leading chunk
\* holds a null byte and decodes as utf-8 has been classified as not text.
C28_Witness ==
  /\ probe.fn = "is_text_file" /\ probe.done
  /\ probe.file.ext = "other" /\ probe.file.mime = "none"
  /\ ~probe.file.head.error /\ probe.file.head.nul /\ probe.file.head.utf8
  /\ ~probe.out

\* a file no directory of whose path is deny-listed or hidden, and whose own
\* name is not hidden or is allow-listed
Qualifies(f) ==
  /\ \A k \in 1..(Len(f) - 1) : f[k][1] # "." /\ f[k] \notin DenyDirs
  /\ f[Len(f)][1] # "." \/ f[Len(f)] \in AllowedHidden

\* C29: get_all_files returns every file of the tree that has no deny-listed or
\* hidden directory on its path and whose name is not hidden or is allow-listed,
\* each once, and no other file: a file below an excluded directory is never
\* returned, at any depth.
C29_ListingIsTheQualifyingFiles ==
  (probe.fn = "get_all_files" /\ probe.done) =>
    /\ \A k \in 1..Len(probe.out) : probe.out[k] \in probe.tree /\ Qualifies(probe.out[k])
    /\ \A f \in probe.tree :
         Cardinality({k \in 1..Len(probe.out) : probe.out[k] = f})
           = IF Qualifies(f) THEN 1 ELSE 0

\* C29 witness: of a tree, the listing holds an allow-listed hidden file below a
\* plain directory and leaves out a plain file below a hidden or deny-listed
\* directory.
C29_Witness ==
  /\ probe.fn = "get_all_files" /\ probe.done
  /\ \E k \in 1..Len(probe.out) :
       Len(probe.out[k]) > 1 /\ probe.out[k][Len(probe.out[k])] = <<".", "env">>
  /\ \E f \in probe.tree :
       /\ f[Len(f)] = <<"a.txt">>
       /\ ~Qualifies(f)
       /\ \A k \in 1..Len(probe.out) : probe.out[k] # f

\* C30: a scan_directory call that has started returns in the end, cancelled or
\* not, every scan_file call being given the time to finish: is_scanning is
\* false again, the end time is set and a final status has been reported; and
\* when it returns, every submitted call has run to its end or declined to
\* start, none is left queued or running.
C30_ScanTerminates ==
  /\ is_scanning ~>
       (~is_scanning /\ pc = "idle" /\ stats.end_time = "set"
          /\ final_status \in {"completed", "cancelled"})
  /\ [][(pc # "idle" /\ pc' = "idle") =>
          (/\ \A f \in DOMAIN task : task[f].st = "done"
           /\ ~is_scanning'
           /\ stats'.end_time = "set")]_vars

\* C31: is_scanning is true only while a scan_directory call is executing: once
\* scan_directory has exited, by its return or by an exception raised after it
\* set the flag, is_scanning is false again.
C31_IsScanningOnlyDuringScan ==
  pc = "idle" => ~is_scanning

\* ------------------------------------------ a directory edited between scans
\* the kinds a file of kind k is once its owner has taken the read permission
\* away: the name is the same (suffix, guessed type), no open succeeds
Revoked(k) ==
  {j \in 1..Len(KindOrder) :
     /\ KindOrder[j].ext = KindOrder[k].ext
     /\ KindOrder[j].mime = KindOrder[k].mime
     /\ KindOrder[j].head.error
     /\ ~KindOrder[j].readable}

\* Between two scan_directory calls the read permission of a file is taken
\* away: is_text_file (line 292) and read_file_content (line 315) then fail to
\* open the path. The scanner is idle and holds what its earlier scans left.
FileChanges(f) ==
  /\ pc = "idle"
  /\ after_queue = "none"
  /\ scans > 0
  /\ f \in DOMAIN dir
  /\ File(f).readable
  /\ \E k \in Revoked(dir[f]) : dir' = [dir EXCEPT ![f] = k]
  /\ UNCHANGED <<probe, gui, scanner, pc, locals, raised, final_status, after_queue, report,
                 scans, cancel_in_scan, prev>>

NextEdited ==
  \/ Next
  \/ \E f \in 1..MaxFiles : FileChanges(f)

SpecEdited == Init /\ [][NextEdited]_vars

\* C32: every path that is a key of results is in scanned_files and in neither
\* skipped_files nor error_files.
C32_ResultsOnlyForScannedFiles ==
  \A f \in DOMAIN results :
    /\ CopiesIn(f, scanned_files) > 0
    /\ CopiesIn(f, skipped_files) = 0
    /\ ErrorEntries(f) = 0

\* ------------------------------------------------------------ the GUI's scans
\* start_scan leaving the start button enabled
ButtonsAtStart_StartEnabled(g) ==
  [g EXCEPT !.stop_button = "normal"]

\* lines 900-902 of start_scan: start_button disabled, stop_button normal
ButtonsAtStart(g) ==
  [g EXCEPT !.start_button = "disabled", !.stop_button = "normal"]

\* start_scan, lines 892-921, run by a click on start_button (a disabled button
\* runs no command): without a path that exists an error box is shown and
\* nothing changes; else the buttons are set, the report button is disabled and
\* the results cleared, a new scanner replaces the old one and a scan thread is
\* started on run_scan
StartScan(path) ==
  /\ gui.start_button = "normal"
  /\ gui.threads < MaxThreads
  /\ path # "missing"
  /\ gui' = [ButtonsAtStart(gui) EXCEPT !.threads = @ + 1, !.stopped = FALSE]
  /\ report' = "none"
  /\ results' = EmptyMap
  /\ scanned_files' = EmptyBag
  /\ skipped_files' = EmptyBag
  /\ error_files' = EmptyBag
  /\ is_scanning' = FALSE
  /\ scan_cancelled' = FALSE
  /\ stats' = InitStats
  /\ pc' = "run_scan"
  /\ directory_path' = "root"
  /\ max_workers' = 1
  /\ all_files' = <<>>
  /\ completed' = 0
  /\ task' = <<>>
  /\ consumed' = {}
  /\ raised' = "none"
  /\ final_status' = "none"
  /\ scans' = 0
  /\ cancel_in_scan' = FALSE
  /\ progress' = NoProgress
  /\ prev' = [results |-> EmptyMap, stats |-> InitStats, status |-> "none"]
  /\ UNCHANGED <<probe, dir, after_queue>>

\* run_scan, lines 923-933, in the scan thread: the pool size and the path are
\* read from the widgets and scan_directory is called (lines 386-396); an
\* exception it raises is caught at line 932 and scan_error is scheduled
RunScan(path, workers) ==
  /\ pc = "run_scan"
  /\ directory_path' = path
  /\ IF PathCheck(path) # "ok"
     THEN /\ raised' = PathCheck(path)
          /\ pc' = "idle"
          /\ after_queue' = "scan_error"
          /\ UNCHANGED <<is_scanning, max_workers, scans>>
     ELSE /\ is_scanning' = TRUE
          /\ pc' = "l397"
          /\ max_workers' = workers
          /\ scans' = scans + 1
          /\ UNCHANGED <<raised, after_queue>>
  /\ UNCHANGED <<probe, gui, dir, results, scanned_files, skipped_files, error_files,
                 scan_cancelled, stats, all_files, completed, task, consumed,
                 final_status, report, cancel_in_scan, progress, prev>>

\* stop_scan, lines 965-970, run by a click on stop_button: cancel_scan is called
\* on the scanner and the stop button disabled
StopScan ==
  /\ gui.stop_button = "normal"
  /\ scan_cancelled' = TRUE
  /\ cancel_in_scan' = (cancel_in_scan \/ is_scanning)
  /\ gui' = [gui EXCEPT !.stop_button = "disabled", !.stopped = TRUE]
  /\ UNCHANGED <<probe, dir, results, scanned_files, skipped_files, error_files, is_scanning,
                 stats, pc, locals, raised, final_status, after_queue, report, scans,
                 prev>>

\* The scans of the window: every scan is started by start_scan on a scanner of
\* its own and stopped, if at all, by stop_scan; the pool sizes stand for the
\* sizes the combobox offers (line 705).
NextGui ==
  \/ \E path \in Paths : StartScan(path)
  \/ \E path \in Paths, workers \in PoolSizes : RunScan(path, workers)
  \/ ScanDirectoryBegin
  \/ \E f \in 1..MaxFiles : ScanFileStart(f)
  \/ \E f \in 1..MaxFiles : ScanFileRule(f)
  \/ \E f \in 1..MaxFiles : Aggregate(f)
  \/ Break
  \/ Finish
  \/ StopScan
  \/ ScanCompleted
  \/ ScanError

SpecGui == Init /\ [][NextGui]_vars

\* the step of scan_completed
ScanCompletedRuns == after_queue = "scan_completed" /\ after_queue' = "none"

\* C33: in the GUI scan_completed generates the report and enables the report
\* button exactly when the scanner's flag is false as it runs; a scan the user
\* stopped (stop_scan was called for it) never has its report generated; and a
\* scan that ran to completion with no stop request has it generated.
C33_ReportOnlyForUnstoppedScan ==
  /\ [][ScanCompletedRuns => (report' = "generated" <=> ~scan_cancelled)]_vars
  /\ [](report = "generated" => ~gui.stopped)
  /\ [][(ScanCompletedRuns /\ final_status = "completed" /\ ~gui.stopped)
          => report' = "generated"]_vars

\* a scan thread runs, or the handler of its outcome is still to run
ScanInFlight == pc # "idle" \/ after_queue # "none"

\* the step of scan_completed or of scan_error
OutcomeHandled == after_queue # "none" /\ after_queue' = "none"

====
